---- MODULE Spec2Model ----
(***************************************************************************)
(* A model of the `beard!` template macro (src/src/lib.rs).                *)
(*                                                                         *)
(* The macro is a list of ten macro_rules arms.  An invocation             *)
(* `beard_internal!(output, ts)` is matched against the arms in textual    *)
(* order; the first arm whose pattern matches fires, emits the code for    *)
(* the leading fragment of `ts` and re-invokes the macro on what is left   *)
(* (`$($any)*`) and on the bodies of control fragments.  An invocation     *)
(* that matches no arm is a compile error: nothing is built, nothing runs. *)
(*                                                                         *)
(* The model has two phases.  `Build` expands the whole template (every    *)
(* invocation, at every depth) and either rejects it or hands it to the    *)
(* run phase.  The run phase executes the expanded code one emitted        *)
(* fragment per step, on a stack of frames that mirrors the nesting of the *)
(* emitted blocks.                                                         *)
(*                                                                         *)
(* Token trees are abstracted as follows: a string literal is one token    *)
(* (k = "lit"), a keyword or punctuation is one token (k = "kw"), a Rust   *)
(* expression is one token (k = "expr"), a pattern is one token            *)
(* (k = "pat"), the statements of an inline block are one token            *)
(* (k = "stmts"), and `{..}`, `[..]`, `(..)` are groups holding a token    *)
(* sequence.  Templates are well typed (a condition is a bool, a loop      *)
(* iterates a list, ...): type errors are compile errors of the host       *)
(* language and are not what the macro decides.                            *)
(***************************************************************************)
EXTENDS Integers, Sequences, FiniteSets, TLC

VARIABLES
    tmpl,     \* the token trees handed to beard! after `output,`
    env0,     \* the bindings in scope at the call site
    failAt,   \* which write request the sink fails (0: none)
    phase,    \* "build", "run" or "rejected"
    fired,    \* every macro invocation expanded by the build, with the arm that fired
    stack,    \* the frames of the running expansion, innermost last
    output,   \* the bytes the sink has accepted
    reqs,     \* the number of write requests the sink has received
    ok,       \* whether the last fallible operation returned Ok
    result,   \* "none" while running, then "ok" or "err"
    trace,    \* history: every fragment executed and every loop iteration started
    wlog,     \* history: every write request, with the trace entry it was made under
    evals,    \* history: how many times an iterable expression has been evaluated
    err       \* history: the first failure (n = 0: none yet)

inputs == <<tmpl, env0, failAt>>
vars == <<tmpl, env0, failAt, phase, fired, stack, output, reqs, ok, result, trace, wlog,
          evals, err>>

----------------------------------------------------------------------------
(* Bounds of the checked instance. *)

MaxTail == 1     \* fragments appended after the fragment under test
MaxIter == 2     \* length of the longest iterable
MaxFail == 4     \* the latest write request that may be made to fail

----------------------------------------------------------------------------
(* Token trees. *)

Lit(b)      == [k |-> "lit", b |-> b]
Kw(w)       == [k |-> "kw", w |-> w]
Brace(ts)   == [k |-> "brace", ts |-> ts]
Bracket(ts) == [k |-> "bracket", ts |-> ts]
Paren(ts)   == [k |-> "paren", ts |-> ts]
Ex(e)       == [k |-> "expr", e |-> e]
Pt(p)       == [k |-> "pat", p |-> p]
Stmts(ss)   == [k |-> "stmts", ss |-> ss]

(* Expressions, patterns, statements and values of the host language. *)
Var(n)      == [x |-> "var", name |-> n]
Const(v)    == [x |-> "const", val |-> v]

BindP(n)    == [p |-> "bind", name |-> n]
SomeP(n)    == [p |-> "some", name |-> n]
NoneP       == [p |-> "none"]

WriteS(b)   == [s |-> "write", b |-> b]
FailS       == [s |-> "fail"]

IntV(n)     == [t |-> "int", n |-> n]
StrV(b)     == [t |-> "str", b |-> b]
BoolV(x)    == [t |-> "bool", tf |-> x]
SomeV(v)    == [t |-> "some", inner |-> v]
NoneV       == [t |-> "none"]
ListV(xs)   == [t |-> "list", xs |-> xs]

Rest(ts, n) == SubSeq(ts, n + 1, Len(ts))

----------------------------------------------------------------------------
(* Fragment specifiers of the macro patterns. *)

IsKw(t, w)  == t.k = "kw" /\ t.w = w
IsExpr(t)   == t.k \in {"expr", "lit"}
IsLiteral(t) == t.k = "lit"
IsBlock(t)  == t.k = "brace" /\ Len(t.ts) = 1 /\ t.ts[1].k \in {"expr", "lit", "stmts"}
IsPat(t)    == t.k = "pat"
IsExprGroup(t) == t.k = "paren" /\ Len(t.ts) = 1 /\ IsExpr(t.ts[1])
IsBody(t)   == t.k = "brace" /\ Len(t.ts) >= 1

(* The ten arms, in the order of the source. *)
ArmEmpty(ts)    == ts = <<>>
ArmActionSp(ts) == Len(ts) >= 3 /\ IsKw(ts[1], "|") /\ IsKw(ts[2], "|") /\ IsBlock(ts[3])
ArmAction(ts)   == Len(ts) >= 2 /\ IsKw(ts[1], "||") /\ IsBlock(ts[2])
ArmLiteral(ts)  == Len(ts) >= 1 /\ IsLiteral(ts[1])
ArmBytes(ts)    == Len(ts) >= 1 /\ ts[1].k = "bracket" /\ Len(ts[1].ts) = 1
                   /\ IsBlock(ts[1].ts[1])
ArmDisplay(ts)  == Len(ts) >= 1 /\ IsBlock(ts[1])
ArmIfElse(ts)   == Len(ts) >= 5 /\ IsKw(ts[1], "if") /\ IsExprGroup(ts[2]) /\ IsBody(ts[3])
                   /\ IsKw(ts[4], "else") /\ IsBody(ts[5])
ArmIfLet(ts)    == Len(ts) >= 6 /\ IsKw(ts[1], "if") /\ IsKw(ts[2], "let") /\ IsPat(ts[3])
                   /\ IsKw(ts[4], "=") /\ IsExprGroup(ts[5]) /\ IsBody(ts[6])
ArmIf(ts)       == Len(ts) >= 3 /\ IsKw(ts[1], "if") /\ IsExprGroup(ts[2]) /\ IsBody(ts[3])
ArmFor(ts)      == Len(ts) >= 5 /\ IsKw(ts[1], "for") /\ IsPat(ts[2]) /\ IsKw(ts[3], "in")
                   /\ IsExprGroup(ts[4]) /\ IsBody(ts[5])

ArmMatches(r, ts) ==
    CASE r = 1 -> ArmEmpty(ts)
      [] r = 2 -> ArmActionSp(ts)
      [] r = 3 -> ArmAction(ts)
      [] r = 4 -> ArmLiteral(ts)
      [] r = 5 -> ArmBytes(ts)
      [] r = 6 -> ArmDisplay(ts)
      [] r = 7 -> ArmIfElse(ts)
      [] r = 8 -> ArmIfLet(ts)
      [] r = 9 -> ArmIf(ts)
      [] r = 10 -> ArmFor(ts)
      [] OTHER -> FALSE

(* Mutant: the plain `if` arm is tried before `if .. else` and `if let`. *)
beard_internal_ifFirst(ts) ==
    IF ArmEmpty(ts) THEN 1
    ELSE IF ArmActionSp(ts) THEN 2
    ELSE IF ArmAction(ts) THEN 3
    ELSE IF ArmLiteral(ts) THEN 4
    ELSE IF ArmBytes(ts) THEN 5
    ELSE IF ArmDisplay(ts) THEN 6
    ELSE IF ArmIf(ts) THEN 9
    ELSE IF ArmIfElse(ts) THEN 7
    ELSE IF ArmIfLet(ts) THEN 8
    ELSE IF ArmFor(ts) THEN 10
    ELSE 0

(* The arm that fires on an invocation: the first that matches; 0: none. *)
beard_internal(ts) ==
    IF ArmEmpty(ts) THEN 1
    ELSE IF ArmActionSp(ts) THEN 2
    ELSE IF ArmAction(ts) THEN 3
    ELSE IF ArmLiteral(ts) THEN 4
    ELSE IF ArmBytes(ts) THEN 5
    ELSE IF ArmDisplay(ts) THEN 6
    ELSE IF ArmIfElse(ts) THEN 7
    ELSE IF ArmIfLet(ts) THEN 8
    ELSE IF ArmIf(ts) THEN 9
    ELSE IF ArmFor(ts) THEN 10
    ELSE 0

(* The number of leading token trees an arm consumes before `$($any)*`. *)
Width(r) ==
    CASE r = 2 -> 3 [] r = 3 -> 2 [] r = 4 -> 1 [] r = 5 -> 1 [] r = 6 -> 1
      [] r = 7 -> 5 [] r = 8 -> 6 [] r = 9 -> 3 [] r = 10 -> 5 [] OTHER -> 0

(* The nested invocations an arm emits besides the one on `$($any)*`. *)
Bodies(ts, r) ==
    CASE r = 7 -> {ts[3].ts, ts[5].ts}
      [] r = 8 -> {ts[6].ts}
      [] r = 9 -> {ts[3].ts}
      [] r = 10 -> {ts[5].ts}
      [] OTHER -> {}

(* Every invocation the expansion of beard_internal!(output, ts) reaches. *)
RECURSIVE Invocations(_)
Invocations(ts) ==
    LET r == beard_internal(ts) IN
    {[ts |-> ts, arm |-> r]} \cup
    IF r \in {0, 1} THEN {}
    ELSE Invocations(Rest(ts, Width(r)))
         \cup UNION {Invocations(b) : b \in Bodies(ts, r)}

----------------------------------------------------------------------------
(* The host language: evaluation, conversions, pattern matching. *)

BytesV(b)   == [t |-> "bytes", b |-> b]

ExprOf(t)   == IF t.k = "lit" THEN Const(StrV(t.b)) ELSE t.e
Eval(e, env) == IF e.x = "var" THEN env[e.name] ELSE e.val
BlockValue(blk, env) == Eval(ExprOf(blk.ts[1]), env)

RECURSIVE Digits(_)
Digits(n) == IF n < 10 THEN <<48 + n>> ELSE Digits(n \div 10) \o <<48 + (n % 10)>>

(* Mutant: the number itself is written as one byte instead of its decimal form. *)
to_string_raw(v) == IF v.t = "int" THEN StrV(<<v.n>>) ELSE StrV(v.b)

(* Display::to_string of the values a template interpolates. *)
to_string(v) == IF v.t = "int" THEN StrV(Digits(v.n)) ELSE StrV(v.b)
(* str::as_bytes: the UTF-8 bytes of the string. *)
as_bytes(v) == v.b
(* AsRef<[u8]>::as_ref of a byte slice or a str. *)
as_ref(v) == v.b
(* Mutant: the elements come out last first. *)
into_iter_rev(v) == [i \in 1..Len(v.xs) |-> v.xs[Len(v.xs) + 1 - i]]

(* IntoIterator::into_iter of a list: its elements in order. *)
into_iter(v) == v.xs

Bind(env, name, val) ==
    [n \in DOMAIN env \cup {name} |-> IF n = name THEN val ELSE env[n]]

(* `if let p = v` / `for p in ..`: whether p matches v and the scope of the body. *)
Match(p, v, env) ==
    CASE p.p = "bind" -> [matched |-> TRUE, env |-> Bind(env, p.name, v)]
      [] p.p = "some" -> IF v.t = "some"
                         THEN [matched |-> TRUE, env |-> Bind(env, p.name, v.inner)]
                         ELSE [matched |-> FALSE, env |-> env]
      [] p.p = "none" -> [matched |-> v.t = "none", env |-> env]

----------------------------------------------------------------------------
(* The running expansion.  A machine state is the record M of the run      *)
(* variables; every step is a function on such records, so that a whole    *)
(* render can also be computed (Run) for a template other than tmpl.       *)

M == [stack |-> stack, output |-> output, reqs |-> reqs, ok |-> ok,
      result |-> result, trace |-> trace, wlog |-> wlog, evals |-> evals, err |-> err]

NoPat == BindP("_")

SeqFrame(ts, env, path) ==
    [kind |-> "seq", ts |-> ts, env |-> env, path |-> path, idx |-> 1,
     items |-> <<>>, pat |-> NoPat]
LoopFrame(body, env, path, items, pat) ==
    [kind |-> "loop", ts |-> body, env |-> env, path |-> path, idx |-> 1,
     items |-> items, pat |-> pat]

Start(ts, env) ==
    [stack |-> <<SeqFrame(ts, env, <<>>)>>, output |-> <<>>, reqs |-> 0, ok |-> TRUE,
     result |-> "none", trace |-> <<>>, wlog |-> <<>>, evals |-> 0,
     err |-> [n |-> 0, at |-> 0, output |-> <<>>]]

Top(m)      == m.stack[Len(m.stack)]
NodeId(f)   == f.path \o <<f.idx>>
Push(m, f)  == [m EXCEPT !.stack = Append(@, f)]
Pop(m)      == [m EXCEPT !.stack = SubSeq(@, 1, Len(@) - 1)]

(* History: a failure happened here. *)
NoteErr(m) ==
    [m EXCEPT !.ok = FALSE,
              !.err = IF @.n = 0
                      THEN [n |-> 1, at |-> Len(m.trace), output |-> m.output]
                      ELSE [@ EXCEPT !.n = @ + 1]]

(* History: the fragment at the head of the top frame starts executing. *)
Log(m, r) ==
    LET f == Top(m) IN
    [m EXCEPT !.trace = Append(@, [k |-> "node", id |-> NodeId(f), arm |-> r,
                                   node |-> SubSeq(f.ts, 1, Width(r)), env |-> f.env,
                                   more |-> Rest(f.ts, Width(r)) # <<>>,
                                   len |-> Len(m.output)])]

(* Mutant: a failed request is made a second time. *)
write_all_retry(m, bytes) ==
    IF m.reqs + 1 = failAt
    THEN [m EXCEPT !.reqs = @ + 2, !.ok = TRUE, !.output = @ \o bytes,
                   !.wlog = @ \o <<[at |-> Len(m.trace), ok |-> FALSE],
                                   [at |-> Len(m.trace), ok |-> TRUE]>>]
    ELSE [m EXCEPT !.reqs = @ + 1, !.ok = TRUE, !.output = @ \o bytes,
                   !.wlog = Append(@, [at |-> Len(m.trace), ok |-> TRUE])]

(* $output.write_all(bytes): one request; the sink takes all the bytes or fails. *)
write_all(m, bytes) ==
    IF m.reqs + 1 = failAt
    THEN NoteErr([m EXCEPT !.reqs = @ + 1,
                           !.wlog = Append(@, [at |-> Len(m.trace), ok |-> FALSE])])
    ELSE [m EXCEPT !.reqs = @ + 1, !.ok = TRUE, !.output = @ \o bytes,
                   !.wlog = Append(@, [at |-> Len(m.trace), ok |-> TRUE])]

(* Mutant: an error raised inside a nested block does not leave the render. *)
Try_nested(m) ==
    IF m.ok \/ Len(m.stack) > 1 THEN [m EXCEPT !.ok = TRUE]
    ELSE [m EXCEPT !.result = "err", !.stack = <<>>]

(* Mutant: the error is dropped and execution goes on. *)
Try_swallow(m) == [m EXCEPT !.ok = TRUE]

(* The `?` operator: on Err the enclosing function returns it. *)
Try(m) == IF m.ok THEN m ELSE [m EXCEPT !.result = "err", !.stack = <<>>]

(* The trailing re-invocation on `$any`: go on with what follows the fragment. *)
Advance(m, r) ==
    IF m.result # "none" THEN m
    ELSE [m EXCEPT !.stack[Len(m.stack)].ts = Rest(@, Width(r)),
                   !.stack[Len(m.stack)].idx = @ + 1]

(* One statement of an inline block. *)
ExecStmt(m, st) ==
    IF st.s = "write" THEN Try(write_all(m, st.b)) ELSE Try(NoteErr(m))

RECURSIVE RunStmts(_, _)
RunStmts(m, ss) ==
    IF ss = <<>> \/ m.result # "none" THEN m
    ELSE RunStmts(ExecStmt(m, Head(ss)), Tail(ss))

(* Mutant: the scope of a block that ends is kept by the enclosing block. *)
StepEmpty_leak(m) ==
    LET f == Top(m)
        m1 == Pop(m)
    IN IF m1.stack = <<>> THEN [m1 EXCEPT !.result = "ok"]
       ELSE [m1 EXCEPT !.stack[Len(m1.stack)].env = f.env]

(* Arm 1 on the end of a sequence: nothing is emitted; the block ends. *)
StepEmpty(m) ==
    LET m1 == Pop(m) IN
    IF m1.stack = <<>> THEN [m1 EXCEPT !.result = "ok"] ELSE m1

(* Arms 2 and 3: { $statement } then the rest. *)
StepAction(m, r) ==
    LET f == Top(m)
        blk == f.ts[Width(r)]
    IN Advance(RunStmts(Log(m, r), blk.ts[1].ss), r)

(* Arm 4: $output.write_all($text.as_bytes())? *)
StepLiteral(m) ==
    LET f == Top(m) IN
    Advance(Try(write_all(Log(m, 4), as_bytes(Eval(ExprOf(f.ts[1]), f.env)))), 4)

(* Arm 5: $output.write_all($statement.as_ref())? *)
StepBytes(m) ==
    LET f == Top(m) IN
    Advance(Try(write_all(Log(m, 5), as_ref(BlockValue(f.ts[1].ts[1], f.env)))), 5)

(* Arm 6: $output.write_all($statement.to_string().as_bytes())? *)
StepDisplay(m) ==
    LET f == Top(m) IN
    Advance(Try(write_all(Log(m, 6), as_bytes(to_string(BlockValue(f.ts[1], f.env))))), 6)

(* Mutant: the two bodies are exchanged. *)
StepIfElse_swapped(m) ==
    LET f == Top(m)
        c == Eval(ExprOf(f.ts[2].ts[1]), f.env).tf
    IN Push(Advance(Log(m, 7), 7),
            IF c THEN SeqFrame(f.ts[5].ts, f.env, NodeId(f) \o <<2>>)
                 ELSE SeqFrame(f.ts[3].ts, f.env, NodeId(f) \o <<1>>))

(* Arm 7: if $condition { statement } else { alternative } then the rest. *)
StepIfElse(m) ==
    LET f == Top(m)
        c == Eval(ExprOf(f.ts[2].ts[1]), f.env).tf
    IN Push(Advance(Log(m, 7), 7),
            IF c THEN SeqFrame(f.ts[3].ts, f.env, NodeId(f) \o <<1>>)
                 ELSE SeqFrame(f.ts[5].ts, f.env, NodeId(f) \o <<2>>))

(* Mutant: the body runs when the pattern does not match. *)
StepIfLet_inverted(m) ==
    LET f == Top(m)
        mt == Match(f.ts[3].p, Eval(ExprOf(f.ts[5].ts[1]), f.env), f.env)
        m1 == Advance(Log(m, 8), 8)
    IN IF ~mt.matched THEN Push(m1, SeqFrame(f.ts[6].ts, mt.env, NodeId(f) \o <<1>>)) ELSE m1

(* Arm 8: if let $condition = $value { statement } then the rest. *)
StepIfLet(m) ==
    LET f == Top(m)
        mt == Match(f.ts[3].p, Eval(ExprOf(f.ts[5].ts[1]), f.env), f.env)
        m1 == Advance(Log(m, 8), 8)
    IN IF mt.matched THEN Push(m1, SeqFrame(f.ts[6].ts, mt.env, NodeId(f) \o <<1>>)) ELSE m1

(* Arm 9: if $condition { statement } then the rest. *)
StepIf(m) ==
    LET f == Top(m)
        c == Eval(ExprOf(f.ts[2].ts[1]), f.env).tf
        m1 == Advance(Log(m, 9), 9)
    IN IF c THEN Push(m1, SeqFrame(f.ts[3].ts, f.env, NodeId(f) \o <<1>>)) ELSE m1

(* Arm 10: for $value in $into_iter.into_iter() { statement } then the rest. *)
StepFor(m) ==
    LET f == Top(m)
        items == into_iter(Eval(ExprOf(f.ts[4].ts[1]), f.env))
    IN Push(Advance([Log(m, 10) EXCEPT !.evals = @ + 1], 10),
            LoopFrame(f.ts[5].ts, f.env, NodeId(f), items, f.ts[2].p))

(* The head of the emitted `for`: the next element, bound in a new scope, or the end. *)
StepLoop(m) ==
    LET f == Top(m) IN
    IF f.idx > Len(f.items) THEN Pop(m)
    ELSE LET mt == Match(f.pat, f.items[f.idx], f.env)
             m1 == [m EXCEPT !.stack[Len(m.stack)].idx = @ + 1,
                             !.trace = Append(@, [k |-> "iter", id |-> f.path, arm |-> 10,
                                                  elem |-> f.items[f.idx], env |-> mt.env,
                                                  len |-> Len(m.output)])]
         IN Push(m1, SeqFrame(f.ts, mt.env, f.path \o <<1>>))

(* What the running code does next. *)
Step(m) ==
    LET f == Top(m)
        r == beard_internal(f.ts)
    IN IF f.kind = "loop" THEN StepLoop(m)
       ELSE CASE r = 1 -> StepEmpty(m)
              [] r \in {2, 3} -> StepAction(m, r)
              [] r = 4 -> StepLiteral(m)
              [] r = 5 -> StepBytes(m)
              [] r = 6 -> StepDisplay(m)
              [] r = 7 -> StepIfElse(m)
              [] r = 8 -> StepIfLet(m)
              [] r = 9 -> StepIf(m)
              [] r = 10 -> StepFor(m)

RECURSIVE Run(_)
Run(m) == IF m.result # "none" THEN m ELSE Run(Step(m))

----------------------------------------------------------------------------
(* The templates, scopes and sinks of the checked instance.  The fragments *)
(* are those of the crate's documentation and test, one per arm, a nested  *)
(* one, and fragments no arm matches.                                      *)

CondC   == Paren(<<Ex(Var("c"))>>)

FragLit        == <<Lit(<<72>>)>>
FragDisplay    == <<Brace(<<Ex(Var("v"))>>)>>
FragDisplayLit == <<Brace(<<Lit(<<97>>)>>)>>
FragBytes      == <<Bracket(<<Brace(<<Ex(Var("s"))>>)>>)>>
FragAction     == <<Kw("||"), Brace(<<Stmts(<<WriteS(<<120>>), WriteS(<<121>>)>>)>>)>>
FragActionSp   == <<Kw("|"), Kw("|"), Brace(<<Stmts(<<WriteS(<<120>>), FailS>>)>>)>>
FragIfElse     == <<Kw("if"), CondC, Brace(<<Lit(<<84>>)>> \o FragDisplay),
                    Kw("else"), Brace(<<Lit(<<78>>)>>)>>
FragIfLet      == <<Kw("if"), Kw("let"), Pt(SomeP("v")), Kw("="), Paren(<<Ex(Var("o"))>>),
                    Brace(<<Lit(<<83>>)>> \o FragDisplay)>>
FragIfLetNone  == <<Kw("if"), Kw("let"), Pt(NoneP), Kw("="), Paren(<<Ex(Var("o"))>>),
                    Brace(<<Lit(<<90>>)>>)>>
FragIf         == <<Kw("if"), CondC, Brace(<<Lit(<<84>>)>>)>>
FragFor        == <<Kw("for"), Pt(BindP("v")), Kw("in"), Paren(<<Ex(Var("xs"))>>),
                    Brace(FragDisplay \o <<Lit(<<44>>)>>)>>
FragNested     == <<Kw("if"), CondC,
                    Brace(<<Kw("for"), Pt(BindP("v")), Kw("in"), Paren(<<Ex(Var("xs"))>>),
                            Brace(FragIfLet \o FragDisplay), Lit(<<46>>)>>),
                    Kw("else"), Brace(FragAction \o FragBytes)>>
FragLoopLoop   == <<Kw("for"), Pt(BindP("v")), Kw("in"), Paren(<<Ex(Var("xs"))>>),
                    Brace(FragFor \o FragDisplay)>>
FragLoopIf     == <<Kw("for"), Pt(BindP("v")), Kw("in"), Paren(<<Ex(Var("xs"))>>),
                    Brace(<<Kw("if"), CondC, Brace(FragBytes), Kw("else"), Brace(FragActionSp)>>)>>

FragElse       == <<Kw("else"), Brace(<<Lit(<<78>>)>>)>>
FragUnknown    == <<Kw("while")>>
FragIfEmpty    == <<Kw("if"), CondC, Brace(<<>>)>>
FragIfLetElse  == FragIfLet \o FragElse
FragBadInBody  == <<Kw("if"), CondC, Brace(<<Lit(<<84>>), Kw("while")>>)>>
FragBadBracket == <<Bracket(FragDisplay \o FragDisplay)>>

GoodFrags == {<<>>, FragLit, FragDisplay, FragDisplayLit, FragBytes, FragAction, FragActionSp,
              FragIfElse, FragIfLet, FragIfLetNone, FragIf, FragFor, FragNested,
              FragLoopLoop, FragLoopIf}
BadFrags  == {FragElse, FragUnknown, FragIfEmpty, FragIfLetElse, FragBadInBody,
              FragBadBracket}

Pres == {<<>>, FragLit}

RECURSIVE TailOf(_)
TailOf(n) == IF n = 0 THEN <<>>
             ELSE TailOf(n - 1) \o (IF n % 2 = 1 THEN FragDisplay ELSE FragLit)
Tails == {TailOf(n) : n \in 0..MaxTail}

Around(frags)  == {pre \o f \o post : pre \in Pres, f \in frags, post \in Tails}
GoodTemplates  == Around(GoodFrags)
BadTemplates   == Around(BadFrags)
Templates      == GoodTemplates \cup BadTemplates

Scopes ==
    {[n \in {"c", "o", "xs", "v", "s"} |->
        CASE n = "c" -> BoolV(b)
          [] n = "o" -> ov
          [] n = "xs" -> ListV([i \in 1..len |-> IntV(i)])
          [] n = "v" -> IntV(7)
          [] n = "s" -> BytesV(<<97, 98>>)]
     : b \in BOOLEAN, ov \in {SomeV(IntV(12)), NoneV}, len \in 0..MaxIter}

----------------------------------------------------------------------------
(* The state machine. *)

Init ==
    /\ tmpl \in Templates
    /\ env0 \in Scopes
    /\ failAt \in 0..MaxFail
    /\ phase = "build"
    /\ fired = {}
    /\ stack = <<>>
    /\ output = <<>>
    /\ reqs = 0
    /\ ok = TRUE
    /\ result = "none"
    /\ trace = <<>>
    /\ wlog = <<>>
    /\ evals = 0
    /\ err = [n |-> 0, at |-> 0, output |-> <<>>]

Apply(n) ==
    /\ stack' = n.stack
    /\ output' = n.output
    /\ reqs' = n.reqs
    /\ ok' = n.ok
    /\ result' = n.result
    /\ trace' = n.trace
    /\ wlog' = n.wlog
    /\ evals' = n.evals
    /\ err' = n.err
    /\ UNCHANGED <<inputs, phase, fired>>

(* Mutant: only the leading fragment is looked at. *)
Malformed_head(ts) == beard_internal(ts) = 0

(* Whether the expansion of the template meets an invocation no arm matches. *)
Malformed(ts) == \E i \in Invocations(ts) : i.arm = 0

(* The compiler expands beard!{output, tmpl}: every arm matched, the code is built. *)
Build ==
    /\ phase = "build"
    /\ ~Malformed(tmpl)
    /\ phase' = "run"
    /\ fired' = Invocations(tmpl)
    /\ stack' = Start(tmpl, env0).stack
    /\ UNCHANGED <<inputs, output, reqs, ok, result, trace, wlog, evals, err>>

(* The compiler meets an invocation no arm matches: a compile error, no code. *)
Reject ==
    /\ phase = "build"
    /\ Malformed(tmpl)
    /\ phase' = "rejected"
    /\ fired' = Invocations(tmpl)
    /\ UNCHANGED <<inputs, stack, output, reqs, ok, result, trace, wlog, evals, err>>

Running == phase = "run" /\ result = "none"
AtArm(r) == Running /\ Top(M).kind = "seq" /\ beard_internal(Top(M).ts) = r

ExecEmpty    == AtArm(1) /\ Apply(StepEmpty(M))
ExecActionSp == AtArm(2) /\ Apply(StepAction(M, 2))
ExecAction   == AtArm(3) /\ Apply(StepAction(M, 3))
ExecLiteral  == AtArm(4) /\ Apply(StepLiteral(M))
ExecBytes    == AtArm(5) /\ Apply(StepBytes(M))
ExecDisplay  == AtArm(6) /\ Apply(StepDisplay(M))
ExecIfElse   == AtArm(7) /\ Apply(StepIfElse(M))
ExecIfLet    == AtArm(8) /\ Apply(StepIfLet(M))
ExecIf       == AtArm(9) /\ Apply(StepIf(M))
ExecFor      == AtArm(10) /\ Apply(StepFor(M))
ExecLoop     == Running /\ Top(M).kind = "loop" /\ Apply(StepLoop(M))

Next ==
    \/ Build
    \/ Reject
    \/ ExecEmpty
    \/ ExecActionSp
    \/ ExecAction
    \/ ExecLiteral
    \/ ExecBytes
    \/ ExecDisplay
    \/ ExecIfElse
    \/ ExecIfLet
    \/ ExecIf
    \/ ExecFor
    \/ ExecLoop

Spec == Init /\ [][Next]_vars

----------------------------------------------------------------------------
(* Vocabulary of the properties, read off the history variables. *)

Finished == phase = "run" /\ result # "none"

IsPrefix(p, q) == Len(p) <= Len(q) /\ SubSeq(q, 1, Len(p)) = p

RECURSIVE Concat(_)
Concat(ss) == IF ss = <<>> THEN <<>> ELSE Head(ss) \o Concat(Tail(ss))

(* The string form of a value, digit by digit. *)
StringForm(v) ==
    IF v.t = "int"
    THEN IF v.n < 10 THEN <<48 + v.n>> ELSE <<48 + (v.n \div 10), 48 + (v.n % 10)>>
    ELSE v.b

(* The bytes of the write statements of an inline block, in order. *)
RECURSIVE StmtBytes(_)
StmtBytes(ss) ==
    IF ss = <<>> THEN <<>>
    ELSE (IF Head(ss).s = "write" THEN Head(ss).b ELSE <<>>) \o StmtBytes(Tail(ss))

ActionStmts(e) == e.node[Len(e.node)].ts[1].ss
ActionFails(e) == e.k = "node" /\ e.arm \in {2, 3}
                  /\ \E j \in 1..Len(ActionStmts(e)) : ActionStmts(e)[j].s = "fail"

(* What an executed fragment emits when nothing fails. *)
Emit(e) ==
    IF e.k # "node" THEN <<>>
    ELSE CASE e.arm = 4 -> e.node[1].b
           [] e.arm = 5 -> Eval(e.node[1].ts[1].ts[1].e, e.env).b
           [] e.arm = 6 -> StringForm(Eval(ExprOf(e.node[1].ts[1]), e.env))
           [] e.arm \in {2, 3} -> StmtBytes(ActionStmts(e))
           [] OTHER -> <<>>

Emitted(tr) == Concat([i \in 1..Len(tr) |-> Emit(tr[i])])

(* The fragments of a token sequence, in declaration order. *)
RECURSIVE NodesOf(_)
NodesOf(ts) ==
    LET r == beard_internal(ts) IN
    IF r \in {0, 1} THEN <<>>
    ELSE <<SubSeq(ts, 1, Width(r))>> \o NodesOf(Rest(ts, Width(r)))

(* The trace entries of the fragments of the root sequence. *)
RootEntries == SelectSeq(trace, LAMBDA e : e.k = "node" /\ Len(e.id) = 1)

NoWriteFailed == \A j \in 1..Len(wlog) : wlog[j].ok
NoActionFailed == \A i \in 1..Len(trace) : ~ActionFails(trace[i])

(* C1 as stated: whenever every write of the sink succeeds, the render succeeds *)
(* and the sink holds the concatenation of what the executed nodes emit.        *)
C1_AsStated ==
    (Finished /\ NoWriteFailed) => (result = "ok" /\ output = Emitted(trace))

(* C1, amended: for every program whose inline actions do not fail themselves  *)
(* and every sink whose writes all succeed, the render succeeds, every fragment *)
(* of the root sequence has executed once, in declaration order, and the sink   *)
(* holds exactly the concatenation, in execution order, of what each executed   *)
(* fragment emits (a literal its declared bytes, a display expression the bytes *)
(* of its string form, a bytes expression its bytes, an inline action the bytes *)
(* it writes); the empty program appends nothing and succeeds.                  *)
C1_RenderConcat ==
    (Finished /\ NoWriteFailed /\ NoActionFailed) =>
        /\ result = "ok"
        /\ output = Emitted(trace)
        /\ Len(RootEntries) = Len(NodesOf(tmpl))
        /\ \A i \in 1..Len(RootEntries) :
              RootEntries[i].id = <<i>> /\ RootEntries[i].node = NodesOf(tmpl)[i]
        /\ (tmpl = <<>> => output = <<>> /\ trace = <<>>)

(* A literal, a loop over two elements and a display expression have rendered. *)
C1_Witness ==
    /\ result = "ok"
    /\ tmpl = FragLit \o FragFor \o FragDisplay
    /\ Len(env0["xs"].xs) = 2
    /\ output = <<72, 49, 44, 50, 44, 55>>

(* The fragment that was executing when the first failure happened. *)
FailingEntry == trace[err.at]

(* C2 as stated: after a failure the sink holds exactly the bytes written      *)
(* before the failing node.                                                     *)
C2_AsStated ==
    (Finished /\ err.n > 0) =>
        /\ result = "err"
        /\ Len(trace) = err.at
        /\ output = Emitted(SubSeq(trace, 1, err.at - 1))

(* C2, amended: once a write or an inline action has failed, at whatever depth, *)
(* no later fragment and no further loop iteration executes, the failure is     *)
(* returned, and the sink holds the bytes written before the failure: those of  *)
(* the fragments before the failing one followed by whatever the failing        *)
(* fragment itself had written (for an inline action the writes it made before  *)
(* it failed; nothing for a literal, display or bytes expression, the failed    *)
(* write of the sink appending nothing).                                        *)
(* Nothing is rolled back and nothing is appended afterwards.                   *)
C2_FailFast ==
    err.n > 0 =>
        /\ result = "err"
        /\ stack = <<>>
        /\ err.n = 1
        /\ Len(trace) = err.at
        /\ output = err.output
        /\ \E p \in {SubSeq(Emit(FailingEntry), 1, n) : n \in 0..Len(Emit(FailingEntry))} :
              /\ output = Emitted(SubSeq(trace, 1, err.at - 1)) \o p
              /\ FailingEntry.arm \in {4, 5, 6} => p = <<>>

(* The second write fails inside the first iteration of a loop over two. *)
C2_Witness ==
    /\ result = "err"
    /\ tmpl = FragLit \o FragFor \o FragDisplay
    /\ Len(env0["xs"].xs) = 2
    /\ failAt = 2
    /\ output = <<72>>

----------------------------------------------------------------------------
(* Control fragments in the trace.  The extent of the entry at i is the run of  *)
(* entries after it that belong to its bodies: fragments whose id extends its   *)
(* id, and the iterations of the loop it starts.                                *)

InExtent(e, id) ==
    \/ e.k = "iter" /\ e.id = id
    \/ Len(e.id) > Len(id) /\ SubSeq(e.id, 1, Len(id)) = id

ExtentEnd(i) ==
    CHOOSE j \in i..Len(trace) :
        /\ \A k \in (i + 1)..j : InExtent(trace[k], trace[i].id)
        /\ j = Len(trace) \/ ~InExtent(trace[j + 1], trace[i].id)

(* The construct started at i has run to its end. *)
Complete(i) == ExtentEnd(i) < Len(trace) \/ result = "ok"

NextSibling(id) == SubSeq(id, 1, Len(id) - 1) \o <<id[Len(id)] + 1>>

(* When the construct at i is followed by more fragments, the next one starts   *)
(* right after the construct's extent.                                          *)
Continues(i) ==
    LET j == ExtentEnd(i) IN
    (trace[i].more /\ Complete(i)) =>
        /\ j < Len(trace)
        /\ trace[j + 1].k = "node"
        /\ trace[j + 1].id = NextSibling(trace[i].id)

(* The construct at i has appended no byte by the end of its extent. *)
NoBytes(i) ==
    LET j == ExtentEnd(i) IN
    /\ j < Len(trace) => trace[j + 1].len = trace[i].len
    /\ (j = Len(trace) /\ result # "none") => Len(output) = trace[i].len

(* The fragments of `body`, as the sequence at path bp, among trace[lo..hi]:    *)
(* each at most once, in declaration order, and all of them when `complete`.    *)
RunsOnce(lo, hi, bp, body, complete) ==
    LET ch == SelectSeq(SubSeq(trace, lo, hi),
                        LAMBDA e : e.k = "node" /\ Len(e.id) = Len(bp) + 1
                                   /\ SubSeq(e.id, 1, Len(bp)) = bp)
        ns == NodesOf(body)
    IN /\ Len(ch) <= Len(ns)
       /\ \A j \in 1..Len(ch) : ch[j].id = bp \o <<j>> /\ ch[j].node = ns[j]
       /\ complete => Len(ch) = Len(ns)

(* The indices of the iterations started by the loop entered at i, ascending. *)
IterationsOf(i) ==
    SelectSeq([k \in 1..(ExtentEnd(i) - i) |-> i + k],
              LAMBDA k : trace[k].k = "iter" /\ trace[k].id = trace[i].id)

LoopEntries == {i \in 1..Len(trace) : trace[i].k = "node" /\ trace[i].arm = 10}

(* C3: the iterable of a loop is evaluated once per execution of the loop; the  *)
(* body executes exactly once per element of the iterable, in the iterable's    *)
(* order, each iteration running to its end before the next starts; an empty    *)
(* iterable gives no execution and no byte; the fragments after the loop then   *)
(* execute.                                                                     *)
C3_LoopOncePerElement ==
    /\ evals = Cardinality(LoopEntries)
    /\ \A i \in LoopEntries :
           LET e == trace[i]
               items == Eval(ExprOf(e.node[4].ts[1]), e.env).xs
               its == IterationsOf(i)
               elems == [n \in 1..Len(its) |-> trace[its[n]].elem]
           IN /\ IsPrefix(elems, items)
              /\ Complete(i) => elems = items
              /\ \A n \in 1..Len(its) :
                    RunsOnce(its[n] + 1,
                             IF n < Len(its) THEN its[n + 1] - 1 ELSE ExtentEnd(i),
                             e.id \o <<1>>, e.node[5].ts,
                             n < Len(its) \/ Complete(i))
              /\ items = <<>> => (ExtentEnd(i) = i /\ NoBytes(i))
              /\ Continues(i)

(* A loop over two elements has run both iterations and the fragment after it. *)
C3_Witness ==
    /\ result = "ok"
    /\ tmpl = FragFor \o FragDisplay
    /\ Len(env0["xs"].xs) = 2
    /\ Len(IterationsOf(1)) = 2
    /\ output = <<49, 44, 50, 44, 55>>

CondEntries == {i \in 1..Len(trace) : trace[i].k = "node" /\ trace[i].arm \in {7, 9}}

(* The body a conditional runs: 1 then_body, 2 else_body, 0 none. *)
Chosen(e) ==
    IF Eval(ExprOf(e.node[2].ts[1]), e.env).tf THEN 1
    ELSE IF e.arm = 7 THEN 2 ELSE 0

(* Body b of the construct at i, and no other, runs once from i on. *)
OnlyBody(i, b, body) ==
    LET e == trace[i]
        j == ExtentEnd(i)
    IN /\ \A k \in (i + 1)..j : IsPrefix(e.id \o <<b>>, trace[k].id)
       /\ (i < Len(trace) \/ result # "none") => j > i
       /\ RunsOnce(i + 1, j, e.id \o <<b>>, body, Complete(i))

(* C4: a conditional with an else body executes exactly one of its bodies,      *)
(* then_body iff the condition is true; one without an else body executes       *)
(* then_body iff the condition is true and otherwise writes nothing; in every   *)
(* case the fragments after the conditional then execute.                       *)
C4_ConditionalBranch ==
    \A i \in CondEntries :
        LET e == trace[i]
            b == Chosen(e)
        IN /\ b = 1 => OnlyBody(i, 1, e.node[3].ts)
           /\ b = 2 => OnlyBody(i, 2, e.node[5].ts)
           /\ b = 0 => (ExtentEnd(i) = i /\ NoBytes(i))
           /\ Continues(i)

(* An if/else with a false condition has run its else body and what follows. *)
C4_Witness ==
    /\ result = "ok"
    /\ tmpl = FragLit \o FragIfElse \o FragDisplay
    /\ ~env0["c"].tf
    /\ output = <<72, 78, 55>>

IfLetEntries == {i \in 1..Len(trace) : trace[i].k = "node" /\ trace[i].arm = 8}

(* Whether the pattern of an `if let` entry matches its scrutinee's value. *)
Matches(e) ==
    LET v == Eval(ExprOf(e.node[5].ts[1]), e.env)
        p == e.node[3].p
    IN \/ p.p = "bind"
       \/ p.p = "some" /\ v.t = "some"
       \/ p.p = "none" /\ v.t = "none"

(* C5: the body of an `if let` executes exactly once when the pattern matches   *)
(* the scrutinee's value and not at all otherwise; a branch that does not match *)
(* writes nothing, and the fragments after it execute either way.               *)
C5_PatternBranch ==
    \A i \in IfLetEntries :
        LET e == trace[i] IN
        /\ Matches(e) => OnlyBody(i, 1, e.node[6].ts)
        /\ ~Matches(e) => (ExtentEnd(i) = i /\ NoBytes(i))
        /\ Continues(i)

(* An `if let Some(v)` on None was skipped and the fragment after it has run. *)
C5_Witness ==
    /\ result = "ok"
    /\ tmpl = FragLit \o FragIfLet \o FragDisplay
    /\ env0["o"].t = "none"
    /\ output = <<72, 55>>

----------------------------------------------------------------------------
BindingEntries == IfLetEntries \cup LoopEntries

PatternOf(e) == IF e.arm = 8 THEN e.node[3].p ELSE e.node[2].p

(* `inner` is `outer` with the pattern's name, if any, bound to `val`. *)
Shadows(inner, outer, p, val) ==
    IF p.p = "none" THEN inner = outer
    ELSE /\ DOMAIN inner = DOMAIN outer \cup {p.name}
         /\ inner[p.name] = val
         /\ \A n \in DOMAIN outer \ {p.name} : inner[n] = outer[n]

(* The scope the body of the construct at i runs in, for the entry at k in it:  *)
(* for an `if let`, the matched value; for a loop, the element of the iteration *)
(* the entry belongs to.                                                        *)
BoundAt(i, k) ==
    LET e == trace[i] IN
    IF e.arm = 8
    THEN LET v == Eval(ExprOf(e.node[5].ts[1]), e.env)
         IN IF PatternOf(e).p = "some" THEN v.inner ELSE v
    ELSE LET its == SelectSeq(IterationsOf(i), LAMBDA n : n <= k)
         IN trace[its[Len(its)]].elem

(* C6: inside the body of a loop or an `if let`, the name the pattern binds     *)
(* holds the element or matched value and hides an outer binding of that name,  *)
(* every other binding being the enclosing one; the fragment that follows the   *)
(* construct sees the very scope the construct was entered in.                  *)
C6_BindingScope ==
    \A i \in BindingEntries :
        LET e == trace[i]
            j == ExtentEnd(i)
        IN /\ \A k \in (i + 1)..j :
                 (trace[k].k = "iter" /\ trace[k].id = e.id) \/
                 (trace[k].k = "node" /\ Len(trace[k].id) = Len(e.id) + 2)
                 => Shadows(trace[k].env, e.env, PatternOf(e), BoundAt(i, k))
           /\ (j < Len(trace) /\ trace[j + 1].id = NextSibling(e.id))
                 => trace[j + 1].env = e.env

(* Inside a loop binding v, an `if let Some(v)` has shown the matched value,    *)
(* the fragment after it the loop's element, the one after the loop the outer v. *)
C6_Witness ==
    /\ result = "ok"
    /\ tmpl = FragNested \o FragDisplay
    /\ env0["c"].tf /\ env0["o"].t = "some" /\ Len(env0["xs"].xs) = 2
    /\ output = <<83, 49, 50, 49, 83, 49, 50, 50, 46, 55>>

----------------------------------------------------------------------------
(* The shape of the head of an invocation, token by token. *)
Word(t) == IF t.k = "kw" THEN t.w ELSE t.k
HeadIs(ts, ws) == Len(ts) >= Len(ws) /\ \A i \in 1..Len(ws) : Word(ts[i]) = ws[i]
OneBlock(t) == t.k = "brace" /\ Len(t.ts) = 1 /\ t.ts[1].k \in {"expr", "lit", "stmts"}
Filled(t) == t.ts # <<>>

(* C7: on every invocation the arm that fires is the first of the list that     *)
(* matches; a bracket-wrapped block is a bytes expression, never a display      *)
(* expression; `if (c) {..} else {..}` is one conditional with an else body,    *)
(* never a plain `if` with an `else` left over; `if let p = (e) {..}` is a      *)
(* pattern branch, never a plain conditional; `||` and `| |` before a block are *)
(* an inline action.                                                            *)
C7_FirstMatchingArm ==
    \A i \in fired :
        /\ i.arm # 0 => ArmMatches(i.arm, i.ts)
        /\ \A r \in 1..10 : (i.arm = 0 \/ r < i.arm) => ~ArmMatches(r, i.ts)
        /\ (HeadIs(i.ts, <<"bracket">>) /\ Len(i.ts[1].ts) = 1 /\ OneBlock(i.ts[1].ts[1]))
              => i.arm = 5
        /\ (HeadIs(i.ts, <<"if", "paren", "brace", "else", "brace">>)
            /\ Filled(i.ts[3]) /\ Filled(i.ts[5]))
              => i.arm = 7
        /\ i.arm = 9 => ~HeadIs(Rest(i.ts, 3), <<"else">>)
        /\ HeadIs(i.ts, <<"if", "let">>) => i.arm \notin {7, 9}
        /\ (HeadIs(i.ts, <<"if", "let", "pat", "=", "paren", "brace">>) /\ Filled(i.ts[6]))
              => i.arm = 8
        /\ (HeadIs(i.ts, <<"||", "brace">>) /\ OneBlock(i.ts[2])) => i.arm = 3
        /\ (HeadIs(i.ts, <<"|", "|", "brace">>) /\ OneBlock(i.ts[3])) => i.arm = 2

(* A template with an if/else, a loop, an `if let`, an inline action and a      *)
(* bracket-wrapped block has been expanded.                                     *)
C7_Witness ==
    /\ phase = "run"
    /\ tmpl = FragNested
    /\ {3, 5, 7, 8, 10} \subseteq {i.arm : i \in fired}

----------------------------------------------------------------------------
(* A node sequence as the body of each control fragment, entered once, under    *)
(* the bindings of the root (the name `w` the wrappers bind is used nowhere).   *)
Nestings(ts) ==
    { <<Kw("if"), Paren(<<Ex(Const(BoolV(TRUE)))>>), Brace(ts)>>,
      <<Kw("if"), Paren(<<Ex(Const(BoolV(FALSE)))>>), Brace(FragLit), Kw("else"), Brace(ts)>>,
      <<Kw("if"), Kw("let"), Pt(SomeP("w")), Kw("="), Paren(<<Ex(Const(SomeV(IntV(1))))>>),
        Brace(ts)>>,
      <<Kw("for"), Pt(BindP("w")), Kw("in"), Paren(<<Ex(Const(ListV(<<IntV(1)>>)))>>),
        Brace(ts)>> }

SameAsNested ==
    \A w \in Nestings(tmpl) :
        /\ ~Malformed(w)
        /\ Run(Start(w, env0)).output = output
        /\ Run(Start(w, env0)).result = result

(* C8 as stated: every sequence rendered as the root is accepted as a body and  *)
(* renders the same there.                                                      *)
C8_AsStated == Finished => SameAsNested

(* C8, amended: every non-empty node sequence that the grammar accepts as the   *)
(* program root is also accepted by the grammar as the body of a conditional    *)
(* (then or else), an `if let` or a loop, and one execution of that body        *)
(* appends the same bytes and ends the same way as rendering it as the root     *)
(* under the same bindings.  (The empty sequence is accepted as the root only.) *)
C8_SelfSimilar == (Finished /\ tmpl # <<>>) => SameAsNested

(* A render that failed in the second iteration of a loop. *)
C8_Witness ==
    /\ result = "err"
    /\ tmpl = FragLit \o FragFor \o FragDisplay
    /\ Len(env0["xs"].xs) = 2
    /\ failAt = 4
    /\ output = <<72, 49, 44>>

----------------------------------------------------------------------------
Untouched ==
    stack = <<>> /\ output = <<>> /\ trace = <<>> /\ wlog = <<>> /\ reqs = 0 /\ evals = 0
    /\ result = "none"

(* C9: a template with a fragment no arm matches (an `else` that does not       *)
(* follow the body of an `if (..)`, an unknown keyword, an empty body), at any  *)
(* depth, is rejected by the build: it never runs, nothing of it executes and   *)
(* no byte reaches the sink; a rejection happens before anything has run.       *)
C9_RejectedAtBuild ==
    /\ tmpl \in BadTemplates => (phase # "run" /\ Untouched)
    /\ phase = "rejected" => (Untouched /\ \E i \in fired : i.arm = 0)

(* A template with a stray `else` between two good fragments was rejected. *)
C9_Witness ==
    /\ phase = "rejected"
    /\ tmpl = FragLit \o FragElse \o FragDisplay

----------------------------------------------------------------------------
CoreEntries == {i \in 1..Len(trace) : trace[i].k = "node" /\ trace[i].arm \in {4, 5, 6}}

(* C10: each execution of a literal, display or bytes fragment makes exactly    *)
(* one write request, and no write request is made after one that failed.       *)
C10_NoRetry ==
    /\ reqs = Len(wlog)
    /\ \A i \in CoreEntries : Cardinality({j \in 1..Len(wlog) : wlog[j].at = i}) = 1
    /\ \A j \in 1..(Len(wlog) - 1) : wlog[j].ok

(* The write of a display expression failed as the second request. *)
C10_Witness ==
    /\ result = "err"
    /\ tmpl = FragLit \o FragDisplay \o FragDisplay
    /\ failAt = 2
    /\ wlog = <<[at |-> 1, ok |-> TRUE], [at |-> 2, ok |-> FALSE]>>

====
